---------------------------- MODULE Spec2Model ----------------------------
(***************************************************************************)
(* rss-sync: the feed-to-ledger reconciliation of src/main.ts.             *)
(*                                                                         *)
(* Strings are sequences of tokens.  A token is one character ("a", "b",   *)
(* DQ for the double quote, GT for '>', NL, SP) or one fixed piece of text *)
(* the program writes as a whole (MARK_OPEN, MARK_CLOSE, LINK_OPEN, ...).  *)
(* An optional JavaScript value (T | undefined) is a record                *)
(* [some, val].  Timestamps are milliseconds since the UNIX epoch.         *)
(***************************************************************************)
EXTENDS Integers, Sequences, FiniteSets, TLC

(***************************************************************************)
(* Bounds of the model.                                                    *)
(***************************************************************************)
\* Entries one feed document holds at most.
MaxEntries == 2
\* Lines a body handed to the codec holds at most.
MaxLines == 3
\* Requests started through one Aborter at most.
MaxRequests == 2
\* The clock's last tick, in milliseconds.
MaxTime == 3
\* The largest timeoutMs an Aborter is constructed with.
MaxTimeout == 2
\* Invocations of the sync command in one behaviour.
MaxRuns == 2

(***************************************************************************)
(* Program constants.                                                      *)
(***************************************************************************)
MAX_FEED_ITEMS == 200
ONE_WEEK_MS == 1000 * 60 * 60 * 24 * 7

(***************************************************************************)
(* Tokens.                                                                 *)
(***************************************************************************)
DQ == "dquote"
GT == "gt"
NL == "newline"
SP == "space"
\* The text `<!-- GUID: ` that opens a marker, up to its opening quote.
MARK_OPEN == "<!-- GUID: "
\* The text ` -->` that closes a marker, after its closing quote.
MARK_CLOSE == " -->"
\* The text `[Continue Reading...](` and `)` around a backlink.
LINK_OPEN == "[Continue Reading]("
LINK_CLOSE == ")"
\* The nine letters the program writes for an id it does not have.
UNDEFINED_TEXT == "undefined"
\* The tokens that are white space to trimEnd().
WhiteSpace == {NL, SP}

None == [some |-> FALSE, val |-> <<>>]
Some(v) == [some |-> TRUE, val |-> v]

(***************************************************************************)
(* String helpers of the JavaScript runtime, as the program uses them.     *)
(***************************************************************************)
RECURSIVE trimEnd(_)
trimEnd(s) ==
    IF s = <<>> THEN s
    ELSE IF s[Len(s)] \in WhiteSpace THEN trimEnd(SubSeq(s, 1, Len(s) - 1))
    ELSE s

\* markdown.search(url) >= 0, for a url without regular-expression operators.
Contains(s, t) ==
    \E i \in 1..(Len(s) - Len(t) + 1) : SubSeq(s, i, i + Len(t) - 1) = t

(***************************************************************************)
(* Marker codec.                                                           *)
(***************************************************************************)
normalizeGUID(value) ==
    IF ~value.some \/ value.val = <<>> THEN <<UNDEFINED_TEXT>>
    ELSE SelectSeq(value.val, LAMBDA c : c \notin {DQ, GT})

addGUID(markdown, guid) ==
    trimEnd(markdown) \o <<NL, NL>> \o <<MARK_OPEN, DQ>> \o normalizeGUID(guid)
        \o <<DQ, MARK_CLOSE>>

addURL(markdown, url) ==
    IF Contains(markdown, url) THEN markdown
    ELSE trimEnd(markdown) \o <<NL, NL>> \o <<LINK_OPEN>> \o url \o <<LINK_CLOSE>>

\* Tokens the class [^">] of GUID_PATTERN cannot consume up to a closing quote:
\* the quote, '>', and the marker's close, which ends in '>'.
ClassStop == {DQ, GT, MARK_CLOSE}

\* ^ under the m flag: the start of the text or the position after a line break.
LineStart(s, i) == i = 1 \/ (i > 1 /\ s[i - 1] = NL)

\* The end (exclusive) of the longest run of [^">] starting at position i.
RECURSIVE ClassRunEnd(_, _)
ClassRunEnd(s, i) ==
    IF i > Len(s) \/ s[i] \in ClassStop THEN i ELSE ClassRunEnd(s, i + 1)

\* GUID_PATTERN matches at position i of s.
MatchesAt(s, i) ==
    /\ LineStart(s, i)
    /\ i + 1 <= Len(s)
    /\ s[i] = MARK_OPEN
    /\ s[i + 1] = DQ
    /\ LET j == ClassRunEnd(s, i + 2)
       IN  /\ j > i + 2
           /\ j + 1 <= Len(s)
           /\ s[j] = DQ
           /\ s[j + 1] = MARK_CLOSE

\* Capture group 1 of the match at position i.
Group1(s, i) == SubSeq(s, i + 2, ClassRunEnd(s, i + 2) - 1)

\* The positions of the matches of GUID_PATTERN, which cannot overlap.
MatchStarts(s) == {i \in 1..Len(s) : MatchesAt(s, i)}

\* A faulty variant of Min: the last match taken, not the first.
Max(S) == CHOOSE x \in S : \A y \in S : x >= y

Min(S) == CHOOSE x \in S : \A y \in S : x <= y

\* findGUID: null (None) without a match, else group 1 of the first match.
findGUID(markdown) ==
    LET results == MatchStarts(markdown)
    IN  IF results = {} THEN None
        ELSE Some(Group1(markdown, Min(results)))

(***************************************************************************)
(* Item Normalizer.  An entry is what the feed parser hands over: its id,  *)
(* its dates, the markdown htmlToMarkdown renders from content ??          *)
(* description, and the href of its first link.  The title has no part in  *)
(* reconciliation and is left out.                                         *)
(***************************************************************************)
NoItem == [guid |-> None, markdown |-> <<>>, timestampMsUTC |-> 0]

\* A faulty variant of NewFeedItem: the check of the date left out.
NewFeedItemUnchecked(guid, markdown, published) ==
    [kind |-> "item",
     item |-> [guid |-> guid, markdown |-> markdown,
               timestampMsUTC |-> published]]

\* The constructor: it throws for a date at the UNIX epoch.
NewFeedItem(guid, markdown, published) ==
    IF published = 0 THEN [kind |-> "throw", item |-> NoItem]
    ELSE [kind |-> "item",
          item |-> [guid |-> guid, markdown |-> markdown,
                    timestampMsUTC |-> published]]

\* FeedItem.fromEntry: null ("skip"), an item, or the constructor's throw.
fromEntry(entry) ==
    LET published == IF entry.published.some THEN entry.published
                     ELSE entry.modified
        rendered == entry.markdown
        linked == IF entry.link.some /\ entry.link.val # <<>>
                  THEN addURL(rendered, entry.link.val) ELSE rendered
        markdown == addGUID(linked, entry.id)
    IN  IF ~published.some THEN [kind |-> "skip", item |-> NoItem]
        ELSE NewFeedItem(entry.id, markdown, published.val)

\* A faulty variant of sortByDate: the operands exchanged, which sorts newest first.
sortByDateNewestFirst(a, b) == b.timestampMsUTC - a.timestampMsUTC

sortByDate(a, b) == a.timestampMsUTC - b.timestampMsUTC

\* Array.prototype.sort is stable: an item goes after the items that compare
\* smaller and after the items before it that compare equal.
SortItems(items) ==
    LET n == Len(items)
        before(j, i) ==
            LET c == sortByDate(items[j], items[i])
            IN  c < 0 \/ (c = 0 /\ j < i)
        place == [i \in 1..n |-> 1 + Cardinality({j \in 1..n : before(j, i)})]
    IN  [r \in 1..n |-> items[CHOOSE i \in 1..n : place[i] = r]]

\* A faulty variant of SliceEntries: the slice left out, which lets every entry
\* of the document through.
SliceEntriesAll(entries) == entries

\* feed.entries.slice(0, MAX_FEED_ITEMS)
SliceEntries(entries) ==
    SubSeq(entries, 1, IF Len(entries) < MAX_FEED_ITEMS THEN Len(entries)
                       ELSE MAX_FEED_ITEMS)

\* The loop of syncFeed over the retained entries: the items pushed, and
\* whether an entry's construction threw (which ends the loop).
NormalizeLoop(entries, acc) ==
    LET results == [k \in 1..Len(entries) |-> fromEntry(entries[k])]
        throws == {k \in 1..Len(entries) : results[k].kind = "throw"}
        stop == IF throws = {} THEN Len(entries) + 1 ELSE Min(throws)
        pushed == SelectSeq(SubSeq(results, 1, stop - 1),
                            LAMBDA r : r.kind = "item")
    IN  [threw |-> throws # {},
         items |-> acc \o [k \in 1..Len(pushed) |-> pushed[k].item]]

\* seenGUIDs.has(i.guid): an undefined guid is no member of a set of strings.
HasGUID(guids, guid) == guid.some /\ guid.val \in guids

\* A faulty variant of FilterUnseen: the negation lost, which keeps the seen items.
FilterSeen(items, guids) ==
    SelectSeq(items, LAMBDA i : HasGUID(guids, i.guid))

\* itemsToStore.filter(i => !seenGUIDs.has(i.guid))
FilterUnseen(items, guids) ==
    SelectSeq(items, LAMBDA i : ~HasGUID(guids, i.guid))

(***************************************************************************)
(* The ledger of one identity: its records, newest first, as getUserItems  *)
(* streams them.  A record is keyed by its signature, hence by its         *)
(* content: submitting the bytes of a stored record adds nothing.          *)
(***************************************************************************)
\* item.toProtobuf(): the post record a FeedItem is written as.
toProtobuf(item) ==
    [timestampMsUtc |-> item.timestampMsUTC, itemType |-> "post",
     body |-> item.markdown]

Range(s) == {s[i] : i \in 1..Len(s)}

RECURSIVE InsertNewestFirst(_, _)
InsertNewestFirst(records, rec) ==
    IF records = <<>> THEN <<rec>>
    ELSE IF records[1].timestampMsUtc <= rec.timestampMsUtc
         THEN <<rec>> \o records
    ELSE <<records[1]>> \o InsertNewestFirst(Tail(records), rec)

\* What client.putItem leaves on the ledger once acknowledged.
LedgerPut(records, rec) ==
    IF rec \in Range(records) THEN records ELSE InsertNewestFirst(records, rec)

(***************************************************************************)
(* The inputs: feed documents and initial ledgers.                         *)
(***************************************************************************)
IdA == <<"a">>
IdB == <<"b">>
\* An id holding a double quote, which the marker cannot carry.
IdQuoted == <<"a", DQ>>
Url == <<"http://u">>
Plain == <<"x", SP>>
\* A body that itself holds a line looking like a marker.
MarkerLike == <<"x", NL, MARK_OPEN, DQ, "a", DQ, MARK_CLOSE, NL>>

Early == 2 * 1000
Week1 == ONE_WEEK_MS + 2000
Week2 == ONE_WEEK_MS + 3000

Entry(id, published, modified, markdown, link) ==
    [id |-> id, published |-> published, modified |-> modified,
     markdown |-> markdown, link |-> link]

EntryUniverse ==
    { Entry(Some(IdA), Some(Week2), None, Plain, Some(Url)),
      Entry(Some(IdB), Some(Week1), Some(Week2), Plain, None),
      Entry(Some(IdA), Some(Week1), None, Plain, None),
      Entry(Some(IdQuoted), Some(Week2), None, Plain, None),
      Entry(None, None, Some(Week1), Plain, None),
      Entry(Some(IdB), None, None, Plain, None),
      Entry(Some(IdB), Some(0), None, Plain, None),
      Entry(Some(IdB), Some(Week2), None, MarkerLike, None) }

\* The entries of the feeds of a batch of two.
BatchEntries ==
    { Entry(Some(IdB), Some(Week1), Some(Week2), Plain, None),
      Entry(Some(IdB), Some(0), None, Plain, None) }

SeqsUpTo(S, n) == UNION {[1..k -> S] : k \in 0..n}

\* A document of three entries with three identifiers, newest first.
LongDocs ==
    { << Entry(Some(IdA), Some(Week2), None, Plain, Some(Url)),
         Entry(Some(IdB), Some(Week1), Some(Week2), Plain, None),
         Entry(None, None, Some(Week1), Plain, None) >> }

Documents == SeqsUpTo(EntryUniverse, MaxEntries) \cup LongDocs

\* A document of n entries, newest first, each with a date of its own.
CapDoc(n) ==
    [k \in 1..n |-> Entry(Some(IF k % 2 = 0 THEN IdA ELSE IdB),
                          Some(Week2 + (n - k)), None, Plain, None)]

\* Documents at the cap, one entry past it and well past it.
CapDocs ==
    {CapDoc(n) : n \in {MAX_FEED_ITEMS - 1, MAX_FEED_ITEMS,
                         MAX_FEED_ITEMS + 1, MAX_FEED_ITEMS + 50}}

\* A marker as the program writes it, for an identifier already normalized.
MarkerLine(id) == <<MARK_OPEN, DQ>> \o id \o <<DQ, MARK_CLOSE>>

\* The lines of the bodies handed to the codec: text, markers, a marker after
\* a space, a marker followed by text, a marker cut before its closing quote,
\* and markers whose quotes hold nothing or hold a '>'.
CodecLines ==
    { <<"x">>, Plain,
      MarkerLine(IdA), MarkerLine(IdB),
      <<SP>> \o MarkerLine(IdA),
      MarkerLine(IdB) \o <<"x">>,
      <<MARK_OPEN, DQ, "a">>,
      MarkerLine(<<>>),
      MarkerLine(<<"a", GT>>) }

RECURSIVE JoinLines(_)
JoinLines(lines) ==
    IF lines = <<>> THEN <<>>
    ELSE IF Len(lines) = 1 THEN lines[1]
    ELSE lines[1] \o <<NL>> \o JoinLines(Tail(lines))

\* The identifiers handed to the codec: absent, empty, plain, holding a
\* quote or a '>', and made of nothing else.
CodecIds ==
    { None, Some(<<>>), Some(IdA), Some(IdQuoted), Some(<<GT, "b">>),
      Some(<<DQ>>), Some(<<DQ, GT>>) }

\* Entries of a feed that re-emits an entry with another date: the identifier
\* IdA, and an identifier holding a quote, at a first date, one second later,
\* and IdA also one week later and more than one week later.
DriftEntries ==
    { Entry(Some(IdA), Some(Week1), None, Plain, None),
      Entry(Some(IdA), Some(Week2), None, Plain, None),
      Entry(Some(IdA), Some(Week1 + ONE_WEEK_MS), None, Plain, None),
      Entry(Some(IdA), Some(Week2 + ONE_WEEK_MS), None, Plain, None),
      Entry(Some(IdQuoted), Some(Week1), None, Plain, None),
      Entry(Some(IdQuoted), Some(Week2), None, Plain, None) }

\* The documents of that feed: one such entry, alone or before an older entry
\* with another identifier.
DriftDocs ==
    {<<e>> : e \in DriftEntries}
        \cup {<<e, Entry(Some(IdB), Some(Early), None, Plain, None)>> :
                  e \in DriftEntries}

\* Entries with identifiers of their own that the marker carries unchanged,
\* plain bodies and fixed dates, the newest more than a week after the others.
IdC == <<"c">>
CleanEntries ==
    { Entry(Some(IdA), Some(Week1), None, Plain, None),
      Entry(Some(IdB), Some(Week2), None, Plain, Some(Url)),
      Entry(Some(IdC), Some(Week2 + ONE_WEEK_MS + 1000), None, Plain, None) }

\* The documents of a feed of such entries: any of them, in any order, each
\* at most once.
CleanDocs ==
    {doc \in SeqsUpTo(CleanEntries, Cardinality(CleanEntries)) :
         \A i, j \in 1..Len(doc) : i # j => doc[i] # doc[j]}

PostRecord(ts, markdown, guid) ==
    [timestampMsUtc |-> ts, itemType |-> "post", body |-> addGUID(markdown, guid)]

LedgerUniverse ==
    { [timestampMsUtc |-> Week1 + 500, itemType |-> "profile", body |-> Plain],
      PostRecord(1000, Plain, Some(IdB)),
      PostRecord(Early, Plain, Some(IdA)),
      PostRecord(Week1, Plain, Some(IdB)) }

IsPost(rec) == rec.itemType = "post"

\* No two post records among `records` decode to the same identifier.
UniqueMarkers(records) ==
    \A r1, r2 \in records :
        (/\ r1 # r2 /\ IsPost(r1) /\ IsPost(r2)
         /\ findGUID(r1.body).some) => findGUID(r1.body) # findGUID(r2.body)

RECURSIVE LedgerOf(_)
LedgerOf(S) ==
    IF S = {} THEN <<>>
    ELSE LET r == CHOOSE r \in S : TRUE
         IN  LedgerPut(LedgerOf(S \ {r}), r)

InitLedgers ==
    {LedgerOf(S) : S \in {T \in SUBSET LedgerUniverse :
                              Cardinality(T) <= 2 /\ UniqueMarkers(T)}}

FeedIds == {1, 2}

(***************************************************************************)
(* State.                                                                  *)
(***************************************************************************)
VARIABLES
    feeds,            \* config.feeds: the identities, in configuration order
    rss,              \* per feed, the entries its URL serves
    ledger,           \* per identity, its records, newest first
    cmd,              \* syncCommand: "idle", "running" or "exited"
    runs,             \* invocations of the sync command so far
    feedIdx,          \* position of the loop over config.feeds
    errors,           \* the errors array: the feeds whose run threw
    exitCode,         \* the outcome the process reports
    state,            \* the reconciler's state for the current feed
    failure,          \* what threw in the current feed's run
    feed,             \* feed.entries, once the fetch has answered
    itemsToStore,     \* syncFeed's list of items
    oldestTimestamp,  \* syncFeed's oldestTimestamp
    scanPos,          \* getSeenGUIDs: next record of the stream
    guids,            \* getSeenGUIDs: the set it collects
    nextPut,          \* syncFeed: index of the next item of the put loop
    inflight,         \* requests started and not yet answered
    attempted,        \* history: the feeds syncFeed was called for, this command
    putLog,           \* history: the items putItem was called with, this run
    getItemCalls,     \* history: getItem calls of this run's scan
    scanLedger,       \* history: the identity's ledger when the run started
    last,             \* history: per feed, how its previous run ended
    submitted,        \* history: per feed, the items of syncFeed's putItem calls
    codec,            \* the marker codec applied to one body and identifier
    aborter           \* an Aborter, the clock and the requests started through it

vars == <<feeds, rss, ledger, cmd, runs, feedIdx, errors, exitCode, state,
          failure, feed, itemsToStore, oldestTimestamp, scanPos, guids,
          nextPut, inflight, attempted, putLog, getItemCalls, scanLedger, last,
          submitted, codec, aborter>>

config == <<feeds, rss>>
batchVars == <<cmd, runs, feedIdx, errors, exitCode, attempted>>
scanVars == <<oldestTimestamp, scanPos, guids, getItemCalls>>

NoRun == [outcome |-> "none", failure |-> "none", pending |-> <<>>, acked |-> 0]

\* An Aborter nothing was started through, at time 0.
NoAborter == [timeoutMs |-> 1, scopeEnded |-> FALSE, now |-> 0, raised |-> {},
              requests |-> <<>>]

\* The codec before it is applied to anything.
NoCodec == [step |-> "idle", lines |-> <<>>, markdown |-> <<>>, guid |-> None,
            encoded |-> <<>>, decoded |-> None]

\* The identity the loop of syncCommand is at.
Current == feeds[feedIdx]

InitRun ==
    /\ cmd = "idle"
    /\ runs = 0
    /\ feedIdx = 1
    /\ errors = <<>>
    /\ exitCode = 0
    /\ state = "Idle"
    /\ failure = "none"
    /\ feed = <<>>
    /\ itemsToStore = <<>>
    /\ oldestTimestamp = 0
    /\ scanPos = 1
    /\ guids = {}
    /\ nextPut = 1
    /\ inflight = {}
    /\ attempted = <<>>
    /\ putLog = <<>>
    /\ getItemCalls = 0
    /\ scanLedger = <<>>
    /\ last = [f \in FeedIds |-> NoRun]
    /\ submitted = [f \in FeedIds |-> <<>>]
    /\ codec = NoCodec
    /\ aborter = NoAborter

\* One feed, any document and any initial ledger.
InitSingle ==
    /\ feeds = <<1>>
    /\ \E doc \in Documents :
           rss = [f \in FeedIds |-> IF f = 1 THEN doc ELSE <<>>]
    /\ \E l \in InitLedgers :
           ledger = [f \in FeedIds |-> IF f = 1 THEN l ELSE <<>>]
    /\ InitRun

\* Two feeds, each with its own identity and a fresh ledger.
InitBatch ==
    /\ feeds \in {<<1, 2>>, <<2, 1>>}
    /\ rss \in [FeedIds -> SeqsUpTo(BatchEntries, MaxEntries)]
    /\ ledger = [f \in FeedIds |-> <<>>]
    /\ InitRun

\* One feed with a document about as long as the cap, a fresh ledger, and
\* the last invocation of the command still to come.
InitCap ==
    /\ feeds = <<1>>
    /\ \E doc \in CapDocs :
           rss = [f \in FeedIds |-> IF f = 1 THEN doc ELSE <<>>]
    /\ ledger = [f \in FeedIds |-> <<>>]
    /\ cmd = "exited"
    /\ runs = MaxRuns - 1
    /\ feedIdx = 2
    /\ errors = <<>>
    /\ exitCode = 0
    /\ state = "Idle"
    /\ failure = "none"
    /\ feed = <<>>
    /\ itemsToStore = <<>>
    /\ oldestTimestamp = 0
    /\ scanPos = 1
    /\ guids = {}
    /\ nextPut = 1
    /\ inflight = {}
    /\ attempted = <<>>
    /\ putLog = <<>>
    /\ getItemCalls = 0
    /\ scanLedger = <<>>
    /\ last = [f \in FeedIds |-> NoRun]
    /\ submitted = [f \in FeedIds |-> <<>>]
    /\ codec = NoCodec
    /\ aborter = NoAborter

\* One feed that re-emits its entry with another date, and a fresh ledger.
InitDrift ==
    /\ feeds = <<1>>
    /\ \E doc \in DriftDocs :
           rss = [f \in FeedIds |-> IF f = 1 THEN doc ELSE <<>>]
    /\ ledger = [f \in FeedIds |-> <<>>]
    /\ InitRun

\* One feed of entries with identifiers of their own, and a fresh ledger.
InitClean ==
    /\ feeds = <<1>>
    /\ \E doc \in CleanDocs :
           rss = [f \in FeedIds |-> IF f = 1 THEN doc ELSE <<>>]
    /\ ledger = [f \in FeedIds |-> <<>>]
    /\ InitRun

Init == InitSingle \/ InitBatch

(***************************************************************************)
(* syncCommand.                                                            *)
(***************************************************************************)
\* `rss-sync sync` is invoked: the loop over config.feeds begins.
StartCommand ==
    /\ cmd \in {"idle", "exited"}
    /\ runs < MaxRuns
    /\ cmd' = "running"
    /\ runs' = runs + 1
    /\ feedIdx' = 1
    /\ errors' = <<>>
    /\ exitCode' = 0
    /\ attempted' = <<>>
    /\ UNCHANGED <<config, aborter, codec, submitted, ledger, state, failure,
                   feed, itemsToStore, scanVars, nextPut, inflight, putLog,
                   scanLedger, last>>

\* The loop calls syncFeed, which starts the fetch of the feed document.
StartFeed ==
    /\ cmd = "running"
    /\ state = "Idle"
    /\ feedIdx <= Len(feeds)
    /\ state' = "Fetching"
    /\ failure' = "none"
    /\ feed' = <<>>
    /\ itemsToStore' = <<>>
    /\ oldestTimestamp' = 0
    /\ scanPos' = 1
    /\ guids' = {}
    /\ nextPut' = 1
    /\ getItemCalls' = 0
    /\ putLog' = <<>>
    /\ inflight' = {[op |-> "fetch", feed |-> Current, item |-> 0]}
    /\ attempted' = Append(attempted, Current)
    /\ scanLedger' = ledger[Current]
    /\ UNCHANGED <<config, aborter, codec, submitted, ledger, cmd, runs,
                   feedIdx, errors, exitCode, last>>

\* What errorContext hands to its caller: the outcome of the function it runs.
errorContext(outcome) == outcome

\* A faulty variant of FeedEnd: no try/catch around syncFeed, so that a throw leaves
\* the loop.
FeedEndLeavesLoop ==
    /\ cmd = "running"
    /\ state \in {"Done", "Aborted"}
    /\ errors' = IF state = "Aborted" THEN Append(errors, Current) ELSE errors
    /\ feedIdx' = IF state = "Aborted" THEN Len(feeds) + 1 ELSE feedIdx + 1
    /\ state' = "Idle"
    /\ last' = [last EXCEPT ![Current] =
                   [outcome |-> state, failure |-> failure,
                    pending |-> IF failure = "write" \/ state = "Done"
                                THEN itemsToStore ELSE <<>>,
                    acked |-> nextPut - 1]]
    /\ UNCHANGED <<config, aborter, codec, submitted, ledger, cmd, runs,
                   exitCode, failure, feed, itemsToStore, scanVars, nextPut,
                   inflight, attempted, putLog, scanLedger>>

\* syncFeed has returned or thrown: the catch block records a throw, and the
\* loop moves to the next feed.
FeedEnd ==
    /\ cmd = "running"
    /\ state \in {"Done", "Aborted"}
    /\ errors' = IF errorContext(state) = "Aborted" THEN Append(errors, Current)
                 ELSE errors
    /\ feedIdx' = feedIdx + 1
    /\ state' = "Idle"
    /\ last' = [last EXCEPT ![Current] =
                   [outcome |-> state, failure |-> failure,
                    pending |-> IF failure = "write" \/ state = "Done"
                                THEN itemsToStore ELSE <<>>,
                    acked |-> nextPut - 1]]
    /\ UNCHANGED <<config, aborter, codec, submitted, ledger, cmd, runs,
                   exitCode, failure, feed, itemsToStore, scanVars, nextPut,
                   inflight, attempted, putLog, scanLedger>>

\* After the loop: Deno.exit(1) when errors were collected.
Exit ==
    /\ cmd = "running"
    /\ state = "Idle"
    /\ feedIdx > Len(feeds)
    /\ cmd' = "exited"
    /\ exitCode' = IF Len(errors) > 0 THEN 1 ELSE 0
    /\ UNCHANGED <<config, aborter, codec, submitted, ledger, runs, feedIdx,
                   errors, state, failure, feed, itemsToStore, scanVars,
                   nextPut, inflight, attempted, putLog, scanLedger, last>>

(***************************************************************************)
(* syncFeed.  A step runs from one await to the next.                      *)
(***************************************************************************)
\* readRSS: the feed's server answers and the document parses.
FetchOk ==
    /\ state = "Fetching"
    /\ \E r \in inflight :
        /\ r.op = "fetch"
        /\ inflight' = inflight \ {r}
        /\ feed' = rss[r.feed]
    /\ state' = "Normalizing"
    /\ UNCHANGED <<config, aborter, codec, submitted, ledger, batchVars,
                   failure, itemsToStore, scanVars, nextPut, putLog,
                   scanLedger, last>>

\* readRSS throws: the connection fails or the document does not parse.
FetchFail ==
    /\ state = "Fetching"
    /\ \E r \in inflight :
        /\ r.op = "fetch"
        /\ inflight' = inflight \ {r}
    /\ state' = "Aborted"
    /\ failure' = "fetch"
    /\ UNCHANGED <<config, aborter, codec, submitted, ledger, batchVars, feed,
                   itemsToStore, scanVars, nextPut, putLog, scanLedger, last>>

\* The loop over the entries, the empty check, the sort and the call of
\* getSeenGUIDs with the oldest item's timestamp.
Normalize ==
    /\ state = "Normalizing"
    /\ LET r == NormalizeLoop(SliceEntries(feed), <<>>)
           sorted == SortItems(r.items)
       IN  IF r.threw
           THEN /\ state' = "Aborted"
                /\ failure' = "entry"
                /\ UNCHANGED <<itemsToStore, oldestTimestamp>>
           ELSE IF Len(r.items) = 0
           THEN /\ state' = "Done"
                /\ UNCHANGED <<failure, itemsToStore, oldestTimestamp>>
           ELSE /\ state' = "Deduplicating"
                /\ itemsToStore' = sorted
                /\ oldestTimestamp' = sorted[1].timestampMsUTC
                /\ UNCHANGED failure
    /\ UNCHANGED <<config, aborter, codec, submitted, ledger, batchVars, feed,
                   scanPos, guids, getItemCalls, nextPut, inflight, putLog,
                   scanLedger, last>>

\* A faulty variant of Cutoff: the week added, not subtracted.
CutoffLater(oldest) == oldest + ONE_WEEK_MS

\* const cutoff = oldestTimestamp - ONE_WEEK_MS
Cutoff(oldest) == oldest - ONE_WEEK_MS

\* A faulty variant of BeforeCutoff: <= in place of <.
AtOrBeforeCutoff(entry, cutoff) == entry.timestampMsUtc <= cutoff

\* A faulty variant of BeforeCutoff: the break left out.
BreakForgotten(entry, cutoff) == FALSE

\* if (entry.timestampMsUtc < cutoff) { break }
BeforeCutoff(entry, cutoff) == entry.timestampMsUtc < cutoff

\* One turn of the loop of getSeenGUIDs over the stream of the identity's
\* records.  A record older than the cutoff, or the end of the stream, ends
\* the loop: syncFeed then filters its items and returns if none is left.
ScanStep ==
    /\ state = "Deduplicating"
    /\ LET records == ledger[Current]
           cutoff == Cutoff(oldestTimestamp)
       IN  IF scanPos > Len(records)
              \/ BeforeCutoff(records[scanPos], cutoff)
           THEN LET remaining == FilterUnseen(itemsToStore, guids)
                IN  /\ itemsToStore' = remaining
                    /\ state' = IF Len(remaining) = 0 THEN "Done"
                                ELSE "Publishing"
                    /\ UNCHANGED <<scanPos, guids, getItemCalls>>
           ELSE LET item == records[scanPos]
                    guid == findGUID(item.body)
                IN  /\ getItemCalls' = getItemCalls + 1
                    /\ scanPos' = scanPos + 1
                    /\ guids' = IF IsPost(item) /\ guid.some
                                THEN guids \cup {guid.val} ELSE guids
                    /\ UNCHANGED <<itemsToStore, state>>
    /\ UNCHANGED <<config, aborter, codec, submitted, ledger, batchVars,
                   failure, feed, oldestTimestamp, nextPut, inflight, putLog,
                   scanLedger, last>>

\* A read of the ledger (getUserItems, getItem) throws.
ScanFail ==
    /\ state = "Deduplicating"
    /\ state' = "Aborted"
    /\ failure' = "read"
    /\ UNCHANGED <<config, aborter, codec, submitted, ledger, batchVars, feed,
                   itemsToStore, scanVars, nextPut, inflight, putLog,
                   scanLedger, last>>

\* A faulty variant of PutStart: putItem called without await, so that the loop starts
\* the next write while earlier ones are outstanding.
PutStartNoAwait ==
    /\ state = "Publishing"
    /\ LET k == nextPut + Cardinality(inflight)
       IN  /\ k <= Len(itemsToStore)
           /\ inflight' = inflight \cup
                              {[op |-> "put", feed |-> Current, item |-> k]}
           /\ putLog' = Append(putLog, itemsToStore[k])
           /\ submitted' = [submitted EXCEPT ![Current] =
                                Append(@, itemsToStore[k])]
    /\ UNCHANGED <<config, aborter, codec, ledger, batchVars, state, failure,
                   feed, itemsToStore, scanVars, nextPut, scanLedger, last>>

\* The put loop signs the next item and calls client.putItem; the await
\* keeps the loop from going on before the answer.
PutStart ==
    /\ state = "Publishing"
    /\ inflight = {}
    /\ nextPut <= Len(itemsToStore)
    /\ inflight' = {[op |-> "put", feed |-> Current, item |-> nextPut]}
    /\ putLog' = Append(putLog, itemsToStore[nextPut])
    /\ submitted' = [submitted EXCEPT ![Current] =
                         Append(@, itemsToStore[nextPut])]
    /\ UNCHANGED <<config, aborter, codec, ledger, batchVars, state, failure,
                   feed, itemsToStore, scanVars, nextPut, scanLedger, last>>

\* The ledger acknowledges the write: the record is on the ledger, and the
\* loop moves on, or syncFeed returns after the last item.
PutAck ==
    /\ state = "Publishing"
    /\ \E r \in inflight :
        /\ r.op = "put"
        /\ inflight' = inflight \ {r}
        /\ ledger' = [ledger EXCEPT ![r.feed] =
                         LedgerPut(@, toProtobuf(itemsToStore[r.item]))]
    /\ nextPut' = nextPut + 1
    /\ state' = IF nextPut + 1 > Len(itemsToStore) THEN "Done" ELSE "Publishing"
    /\ UNCHANGED <<config, aborter, codec, submitted, batchVars, failure,
                   feed, itemsToStore, scanVars, putLog, scanLedger, last>>

\* A faulty variant of PutFail: the throw caught inside the loop, which goes on with
\* the next item.
PutFailGoesOn ==
    /\ state = "Publishing"
    /\ \E r \in inflight :
        /\ r.op = "put"
        /\ inflight' = inflight \ {r}
    /\ nextPut' = nextPut + 1
    /\ state' = IF nextPut + 1 > Len(itemsToStore) THEN "Done" ELSE "Publishing"
    /\ failure' = "write"
    /\ UNCHANGED <<config, aborter, codec, submitted, ledger, batchVars, feed,
                   itemsToStore, oldestTimestamp, scanPos, guids,
                   getItemCalls, putLog, scanLedger, last>>

\* client.putItem throws: nothing is stored and syncFeed throws.
PutFail ==
    /\ state = "Publishing"
    /\ \E r \in inflight :
        /\ r.op = "put"
        /\ inflight' = inflight \ {r}
    /\ state' = "Aborted"
    /\ failure' = "write"
    /\ UNCHANGED <<config, aborter, codec, submitted, ledger, batchVars, feed,
                   itemsToStore, scanVars, nextPut, putLog, scanLedger, last>>

Next ==
    \/ StartCommand
    \/ StartFeed
    \/ FetchOk
    \/ FetchFail
    \/ Normalize
    \/ ScanStep
    \/ ScanFail
    \/ PutStart
    \/ PutAck
    \/ PutFail
    \/ FeedEnd
    \/ Exit

Spec == Init /\ [][Next]_vars

(***************************************************************************)
(* Feeds that change between two invocations of the command.               *)
(***************************************************************************)
\* The server of a feed serves another document from now on.
FeedChange(docs) ==
    /\ cmd \in {"idle", "exited"}
    /\ \E f \in Range(feeds), doc \in docs :
        /\ doc # rss[f]
        /\ rss' = [rss EXCEPT ![f] = doc]
    /\ UNCHANGED <<feeds, aborter, codec, submitted, ledger, batchVars, state,
                   failure, feed, itemsToStore, scanVars, nextPut, inflight,
                   putLog, scanLedger, last>>

FeedDrifts == FeedChange(DriftDocs)

DriftNext == Next \/ FeedDrifts

DriftSpec == InitDrift /\ [][DriftNext]_vars

(***************************************************************************)
(* updateProfilesCommand and updateProfile.                                *)
(***************************************************************************)
\* feedConfig.name and feedConfig.rssUrl of an identity's feed.
FeedName(f) == IF f = 1 THEN <<"one">> ELSE <<"two">>
RssUrl(f) == IF f = 1 THEN <<"http://one">> ELSE <<"http://two">>

\* The lines updateProfile joins into the profile's text.
profileText(f) ==
    <<"Posts from <">> \o RssUrl(f) \o <<GT, NL, NL>>
        \o <<"Sync'd by [@diskuto/rss-sync](https://jsr.io/@diskuto/rss-sync)">>

ProfileRecord(ts, displayName, about) ==
    [timestampMsUtc |-> ts, itemType |-> "profile",
     displayName |-> displayName, about |-> about]

\* client.getProfile: the identity's current profile, the newest profile
\* record of its ledger, or nothing.
getProfile(records) ==
    LET profiles == SelectSeq(records, LAMBDA r : r.itemType = "profile")
    IN  IF profiles = <<>> THEN None ELSE Some(profiles[1])

\* A faulty variant of ProfileMatches: || in place of &&.
ProfileMatchesEither(profile, displayName, about) ==
    profile.displayName = displayName \/ profile.about = about

\* profile.displayName == displayName && profile.about == profileText
ProfileMatches(profile, displayName, about) ==
    profile.displayName = displayName /\ profile.about = about

\* What Date.now() may return: the wall clock is past the timestamps of the
\* records the ledgers start with.
Clock == {Week2 + ONE_WEEK_MS, Week2 + ONE_WEEK_MS + 1000}

\* What an identity's ledger may hold before the command: the profile
\* updateProfile computes, profiles with another name or another text, and
\* a post.
ProfileUniverse(f) ==
    { ProfileRecord(Week1, FeedName(f), profileText(f)),
      ProfileRecord(Week1 + 500, <<"old">>, profileText(f)),
      ProfileRecord(Week2, FeedName(f), <<"Posts">>),
      PostRecord(Week1, Plain, Some(IdB)) }

ProfileLedgers(f) ==
    {LedgerOf(S) : S \in {T \in SUBSET ProfileUniverse(f) : Cardinality(T) <= 2}}

InitProfile ==
    /\ feeds \in {<<1>>, <<1, 2>>}
    /\ rss = [f \in FeedIds |-> <<>>]
    /\ ledger \in {l \in [FeedIds -> ProfileLedgers(1) \cup ProfileLedgers(2)] :
                       \A f \in FeedIds :
                           /\ l[f] \in ProfileLedgers(f)
                           /\ f \notin Range(feeds) => l[f] = <<>>}
    /\ InitRun

\* The variables only syncFeed and the codec write.
syncOnly == <<feed, itemsToStore, scanVars, nextPut, submitted, codec>>

\* `rss-sync updateProfiles` is invoked: the loop over config.feeds begins.
StartUpdateProfiles ==
    /\ cmd \in {"idle", "exited"}
    /\ runs < MaxRuns
    /\ cmd' = "updating"
    /\ runs' = runs + 1
    /\ feedIdx' = 1
    /\ errors' = <<>>
    /\ exitCode' = 0
    /\ attempted' = <<>>
    /\ UNCHANGED <<config, aborter, syncOnly, ledger, state, failure,
                   inflight, putLog, scanLedger, last>>

\* The loop calls updateProfile, which asks for the identity's profile.
StartProfile ==
    /\ cmd = "updating"
    /\ state = "Idle"
    /\ feedIdx <= Len(feeds)
    /\ state' = "GettingProfile"
    /\ failure' = "none"
    /\ putLog' = <<>>
    /\ inflight' = {[op |-> "getProfile", feed |-> Current, item |-> 0]}
    /\ attempted' = Append(attempted, Current)
    /\ scanLedger' = ledger[Current]
    /\ UNCHANGED <<config, aborter, syncOnly, ledger, cmd, runs, feedIdx,
                   errors, exitCode, last>>

\* getProfile answers: updateProfile returns when the profile matches, else
\* it builds a profile item stamped Date.now(), signs it and calls putItem.
ProfileGot ==
    /\ state = "GettingProfile"
    /\ \E r \in inflight :
        /\ r.op = "getProfile"
        /\ LET result == getProfile(ledger[r.feed])
               displayName == FeedName(r.feed)
           IN  IF result.some
                  /\ ProfileMatches(result.val, displayName, profileText(r.feed))
               THEN /\ state' = "Done"
                    /\ inflight' = {}
                    /\ UNCHANGED putLog
               ELSE \E now \in Clock :
                    /\ state' = "PuttingProfile"
                    /\ inflight' = {[op |-> "put", feed |-> r.feed, item |-> 1]}
                    /\ putLog' = <<ProfileRecord(now, displayName,
                                                 profileText(r.feed))>>
    /\ UNCHANGED <<config, aborter, syncOnly, ledger, batchVars, failure,
                   scanLedger, last>>

\* client.getProfile throws.
ProfileGetFail ==
    /\ state = "GettingProfile"
    /\ inflight' = {}
    /\ state' = "Aborted"
    /\ failure' = "read"
    /\ UNCHANGED <<config, aborter, syncOnly, ledger, batchVars, putLog,
                   scanLedger, last>>

\* The ledger acknowledges the profile: updateProfile returns.
ProfilePutAck ==
    /\ state = "PuttingProfile"
    /\ \E r \in inflight :
        /\ r.op = "put"
        /\ ledger' = [ledger EXCEPT ![r.feed] = LedgerPut(@, putLog[r.item])]
    /\ inflight' = {}
    /\ state' = "Done"
    /\ UNCHANGED <<config, aborter, syncOnly, batchVars, failure, putLog,
                   scanLedger, last>>

\* client.putItem throws: nothing is stored and updateProfile throws.
ProfilePutFail ==
    /\ state = "PuttingProfile"
    /\ inflight' = {}
    /\ state' = "Aborted"
    /\ failure' = "write"
    /\ UNCHANGED <<config, aborter, syncOnly, ledger, batchVars, putLog,
                   scanLedger, last>>

\* updateProfile has returned or thrown.  The loop has no try/catch: a throw
\* leaves updateProfilesCommand, and the process ends with an error.
ProfileEnd ==
    /\ cmd = "updating"
    /\ state \in {"Done", "Aborted"}
    /\ state' = "Idle"
    /\ last' = [last EXCEPT ![Current] =
                   [outcome |-> state, failure |-> failure,
                    pending |-> putLog,
                    acked |-> IF state = "Done" THEN Len(putLog) ELSE 0]]
    /\ IF errorContext(state) = "Aborted"
       THEN /\ cmd' = "exited"
            /\ exitCode' = 1
            /\ errors' = Append(errors, Current)
            /\ UNCHANGED feedIdx
       ELSE /\ feedIdx' = feedIdx + 1
            /\ UNCHANGED <<cmd, exitCode, errors>>
    /\ UNCHANGED <<config, aborter, syncOnly, ledger, runs, failure, inflight,
                   attempted, putLog, scanLedger>>

\* After the loop the command returns.
ProfilesExit ==
    /\ cmd = "updating"
    /\ state = "Idle"
    /\ feedIdx > Len(feeds)
    /\ cmd' = "exited"
    /\ UNCHANGED <<config, aborter, syncOnly, ledger, runs, feedIdx, errors,
                   exitCode, state, failure, inflight, attempted, putLog,
                   scanLedger, last>>

ProfileNext ==
    \/ StartUpdateProfiles
    \/ StartProfile
    \/ ProfileGot
    \/ ProfileGetFail
    \/ ProfilePutAck
    \/ ProfilePutFail
    \/ ProfileEnd
    \/ ProfilesExit

ProfileSpec == InitProfile /\ [][ProfileNext]_vars

\* Entries are added to the feed or dropped from it.
FeedEvolves == FeedChange(CleanDocs)

CleanNext == Next \/ FeedEvolves

CleanSpec == InitClean /\ [][CleanNext]_vars

(***************************************************************************)
(* The marker codec on its own: a body and an identifier are drawn, addGUID  *)
(* writes the marker, and findGUID reads the body before or after that.    *)
(***************************************************************************)
InitCodec ==
    /\ feeds = <<1>>
    /\ rss = [f \in FeedIds |-> <<>>]
    /\ ledger = [f \in FeedIds |-> <<>>]
    /\ cmd = "idle"
    /\ runs = 0
    /\ feedIdx = 1
    /\ errors = <<>>
    /\ exitCode = 0
    /\ state = "Idle"
    /\ failure = "none"
    /\ feed = <<>>
    /\ itemsToStore = <<>>
    /\ oldestTimestamp = 0
    /\ scanPos = 1
    /\ guids = {}
    /\ nextPut = 1
    /\ inflight = {}
    /\ attempted = <<>>
    /\ putLog = <<>>
    /\ getItemCalls = 0
    /\ scanLedger = <<>>
    /\ last = [f \in FeedIds |-> NoRun]
    /\ submitted = [f \in FeedIds |-> <<>>]
    /\ aborter = NoAborter
    /\ \E lines \in SeqsUpTo(CodecLines, MaxLines), guid \in CodecIds :
           codec = [step |-> "drawn", lines |-> lines,
                    markdown |-> JoinLines(lines), guid |-> guid,
                    encoded |-> <<>>, decoded |-> None]

\* addGUID(markdown, item.id)
Encode ==
    /\ codec.step = "drawn"
    /\ codec' = [codec EXCEPT !.step = "encoded",
                              !.encoded = addGUID(codec.markdown, codec.guid)]
    /\ UNCHANGED <<config, aborter, ledger, batchVars, state, failure, feed,
                   itemsToStore, scanVars, nextPut, inflight, putLog,
                   scanLedger, last, submitted>>

\* findGUID of the body as drawn, or of the body addGUID has written.
Decode ==
    /\ codec.step \in {"drawn", "encoded"}
    /\ codec' = IF codec.step = "drawn"
                THEN [codec EXCEPT !.step = "decoded",
                                   !.decoded = findGUID(codec.markdown)]
                ELSE [codec EXCEPT !.step = "roundtrip",
                                   !.decoded = findGUID(codec.encoded)]
    /\ UNCHANGED <<config, aborter, ledger, batchVars, state, failure, feed,
                   itemsToStore, scanVars, nextPut, inflight, putLog,
                   scanLedger, last, submitted>>

CodecNext == Encode \/ Decode

CodecSpec == InitCodec /\ [][CodecNext]_vars

\* The machine on documents about as long as the cap.
CapSpec == InitCap /\ [][Next]_vars

(***************************************************************************)
(* The same machine with the scheduling the runtime guarantees: the event  *)
(* loop runs every continuation that is ready, and the ledger answers      *)
(* every request, with an acknowledgement or a failure.  Nothing makes the *)
(* feed's server answer: readRSS calls fetch(url) without a signal.        *)
(***************************************************************************)
Fairness ==
    /\ WF_vars(StartFeed)
    /\ WF_vars(Normalize)
    /\ WF_vars(ScanStep \/ ScanFail)
    /\ WF_vars(PutStart)
    /\ WF_vars(PutAck \/ PutFail)
    /\ WF_vars(FeedEnd)
    /\ WF_vars(Exit)

LiveSpec == InitBatch /\ [][Next]_vars /\ Fairness

(***************************************************************************)
(* The Aborter.  A signal is named: "scope" is #scopeEnded.signal,         *)
(* "timeout" is the signal AbortSignal.timeout makes for one call, and the *)
(* others are signals of the caller.  Time advances in ticks of one         *)
(* millisecond, and a timer that is due runs with the tick.                *)
(***************************************************************************)
\* The signals the caller holds and may abort: the one it makes its Request
\* with and the one it passes in init.
OfRequest == "ofRequest"
OfInit == "ofInit"
CallerSignals == {OfRequest, OfInit}
NoSignal == "none"

\* What fetch is called with: a URL or a Request, and an init with or without
\* a signal.
FetchInputs ==
    { [isRequest |-> FALSE, signal |-> NoSignal],
      [isRequest |-> TRUE, signal |-> OfRequest] }
FetchInits == {[signal |-> NoSignal], [signal |-> OfInit]}

\* A faulty variant of FetchSignals: the signal of init taken in place of the
\* Request's signal, as plain fetch(input, init) does.
FetchSignalsInitWins(input, init) ==
    {"scope", "timeout"}
        \cup IF init.signal # NoSignal THEN {init.signal}
             ELSE IF input.isRequest THEN {input.signal} ELSE {}

\* The list `signals` that Aborter.fetch builds.
FetchSignals(input, init) ==
    {"scope", "timeout"}
        \cup (IF input.isRequest /\ input.signal # NoSignal
              THEN {input.signal} ELSE {})
        \cup (IF init.signal # NoSignal THEN {init.signal} ELSE {})

\* Whether the signal `name` of request r has aborted.
SignalAborted(a, r, name) ==
    CASE name = "scope" -> a.scopeEnded
      [] name = "timeout" -> a.now - r.startedAt >= a.timeoutMs
      [] OTHER -> name \in a.raised

\* AbortSignal.any(signals): aborted as soon as one of its signals is, and
\* from the start when one already is.
AbortSignalAny(a, r) == \E name \in r.signals : SignalAborted(a, r, name)

\* fetch rejects a request in flight once its signal has aborted.
AbortFetches(a) ==
    [a EXCEPT !.requests =
        [k \in 1..Len(a.requests) |->
            IF a.requests[k].status = "inflight"
               /\ AbortSignalAny(a, a.requests[k])
            THEN [a.requests[k] EXCEPT !.status = "aborted"]
            ELSE a.requests[k]]]

\* The variables the Aborter has no part in.
notAborter ==
    <<config, syncOnly, ledger, batchVars, state, failure, inflight, putLog,
      scanLedger, last>>

\* new Aborter({timeoutMs})
InitAborter ==
    /\ feeds = <<1>>
    /\ rss = [f \in FeedIds |-> <<>>]
    /\ ledger = [f \in FeedIds |-> <<>>]
    /\ cmd = "idle"
    /\ runs = 0
    /\ feedIdx = 1
    /\ errors = <<>>
    /\ exitCode = 0
    /\ state = "Idle"
    /\ failure = "none"
    /\ feed = <<>>
    /\ itemsToStore = <<>>
    /\ oldestTimestamp = 0
    /\ scanPos = 1
    /\ guids = {}
    /\ nextPut = 1
    /\ inflight = {}
    /\ attempted = <<>>
    /\ putLog = <<>>
    /\ getItemCalls = 0
    /\ scanLedger = <<>>
    /\ last = [f \in FeedIds |-> NoRun]
    /\ submitted = [f \in FeedIds |-> <<>>]
    /\ codec = NoCodec
    /\ \E timeoutMs \in 1..MaxTimeout :
           aborter = [timeoutMs |-> timeoutMs, scopeEnded |-> FALSE,
                      now |-> 0, raised |-> {}, requests |-> <<>>]

\* aborter.fetch(input, init)
AborterFetch ==
    /\ Len(aborter.requests) < MaxRequests
    /\ \E input \in FetchInputs, init \in FetchInits :
           aborter' = AbortFetches(
               [aborter EXCEPT !.requests =
                   Append(@, [startedAt |-> aborter.now,
                              afterDispose |-> aborter.scopeEnded,
                              requestSignal |-> input.signal,
                              initSignal |-> init.signal,
                              signals |-> FetchSignals(input, init),
                              status |-> "inflight"])])
    /\ UNCHANGED notAborter

\* [Symbol.dispose](): #scopeEnded.abort(...)
AborterDispose ==
    /\ ~aborter.scopeEnded
    /\ aborter' = AbortFetches([aborter EXCEPT !.scopeEnded = TRUE])
    /\ UNCHANGED notAborter

\* The caller aborts one of its signals.
CallerAborts ==
    /\ \E s \in CallerSignals \ aborter.raised :
           aborter' = AbortFetches([aborter EXCEPT !.raised = @ \cup {s}])
    /\ UNCHANGED notAborter

\* One millisecond passes; the timers now due abort their signals.
Tick ==
    /\ aborter.now < MaxTime
    /\ aborter' = AbortFetches([aborter EXCEPT !.now = @ + 1])
    /\ UNCHANGED notAborter

\* A request in flight completes.
FetchCompletes ==
    /\ \E k \in 1..Len(aborter.requests) :
        /\ aborter.requests[k].status = "inflight"
        /\ aborter' = [aborter EXCEPT !.requests[k].status = "done"]
    /\ UNCHANGED notAborter

AborterNext ==
    \/ AborterFetch
    \/ AborterDispose
    \/ CallerAborts
    \/ Tick
    \/ FetchCompletes

AborterSpec == InitAborter /\ [][AborterNext]_vars

(***************************************************************************)
(* Properties.                                                             *)
(***************************************************************************)
IsPrefix(s, t) == Len(s) <= Len(t) /\ s = SubSeq(t, 1, Len(s))

InRun == state # "Idle"

\* C1. Idempotence: when the previous run of syncFeed for this identity
\* completed, and the feed and the ledger are as it left them, the run that
\* follows calls putItem for nothing.
C1_SecondRunPutsNothing ==
    (InRun /\ last[Current].outcome = "Done") => putLog = <<>>

\* The records of an identity inside the scan window of the current run.
InWindow(f) ==
    {r \in Range(ledger[f]) : r.timestampMsUtc >= oldestTimestamp - ONE_WEEK_MS}

\* C2. Ledger uniqueness: from a ledger without two post records decoding
\* to one identifier, no run of syncFeed, complete or aborted, leaves two
\* post records inside its scan window that decode to the same identifier.
C2_LedgerUniqueness ==
    (InRun /\ oldestTimestamp # 0) => UniqueMarkers(InWindow(Current))

\* The items of a document, oldest first.
ItemsOf(doc) == SortItems(NormalizeLoop(SliceEntries(doc), <<>>).items)

\* The identifiers decoded from the post records of `records` that are not
\* older than one week before the oldest of `items`.
SeenIn(records, items) ==
    IF items = <<>> THEN {}
    ELSE LET cutoff == items[1].timestampMsUTC - ONE_WEEK_MS
         IN  {findGUID(r.body).val :
                 r \in {q \in Range(records) :
                           /\ IsPost(q)
                           /\ q.timestampMsUtc >= cutoff
                           /\ findGUID(q.body).some}}

\* C3. Dedup within one run: putItem is never called with an item whose
\* identifier is decoded from a post record that was inside the scan window
\* when the run started; a run that completes has submitted exactly the
\* items whose identifier is not in the seen-set, and an aborted run a
\* prefix of them.
C3_DedupWithinRun ==
    (InRun /\ (putLog # <<>> \/ state = "Done")) =>
        LET items == ItemsOf(rss[Current])
            seen == SeenIn(scanLedger, items)
            unseen == SelectSeq(items,
                          LAMBDA i : ~(i.guid.some /\ i.guid.val \in seen))
        IN  /\ \A k \in 1..Len(putLog) :
                   ~(putLog[k].guid.some /\ putLog[k].guid.val \in seen)
            /\ IsPrefix(putLog, unseen)
            /\ (state = "Done" => putLog = unseen)

\* C3 witness: a completed run that submitted one item and held back another
\* whose identifier was already on the ledger.
C3_Witness ==
    /\ state = "Done"
    /\ Len(putLog) >= 1
    /\ Len(putLog) < Len(ItemsOf(rss[Current]))
    /\ SeenIn(scanLedger, ItemsOf(rss[Current])) # {}

\* C4. Publish ordering: within one run no item is submitted after an item
\* with a strictly later timestamp.
C4_PublishOrdering ==
    \A i, j \in 1..Len(putLog) :
        i < j => putLog[i].timestampMsUTC <= putLog[j].timestampMsUTC

\* C4 witness: two items submitted oldest first although the feed lists the
\* newer one first.
C4_Witness ==
    /\ state = "Done"
    /\ Len(putLog) >= 2
    /\ putLog[1].timestampMsUTC < putLog[2].timestampMsUTC
    /\ Len(feed) >= 2
    /\ fromEntry(feed[1]).kind = "item"
    /\ fromEntry(feed[1]).item = putLog[2]

\* C5. Resumability: when the previous run for this identity aborted on a
\* failed write after `acked` of its pending items, a following run that
\* completes submits exactly the pending items after the acknowledged ones
\* that are not on the ledger yet, and none of the acknowledged ones.
C5_ResumeSubmitsTheRest ==
    (/\ InRun
     /\ state = "Done"
     /\ last[Current].outcome = "Aborted"
     /\ last[Current].failure = "write")
    => putLog = SelectSeq(SubSeq(last[Current].pending,
                                 last[Current].acked + 1,
                                 Len(last[Current].pending)),
                          LAMBDA i : toProtobuf(i) \notin Range(scanLedger))

\* C6. Abort on publish failure: once putItem has failed for an item, the
\* run is aborted, putItem has been called for the items up to the failed
\* one and for none after it, nothing is in flight, and every item
\* acknowledged before the failure is on the ledger.
C6_AbortOnPublishFailure ==
    (InRun /\ failure = "write") =>
        /\ state = "Aborted"
        /\ inflight = {}
        /\ nextPut <= Len(itemsToStore)
        /\ putLog = SubSeq(itemsToStore, 1, nextPut)
        /\ \A k \in 1..(nextPut - 1) :
               toProtobuf(itemsToStore[k]) \in Range(ledger[Current])

\* C6 witness: the second of three pending items failed after the first was
\* acknowledged.
C6_Witness ==
    /\ state = "Aborted"
    /\ failure = "write"
    /\ nextPut = 2
    /\ Len(itemsToStore) = 3
    /\ Len(ledger[Current]) > Len(scanLedger)

\* C7. Batch failure isolation: syncFeed is called for the configured feeds
\* in configuration order, once each; the command exits only after the last
\* one, with the failed feeds in errors and a non-zero outcome exactly when
\* there is one.
C7_BatchIsolation ==
    /\ IsPrefix(attempted, feeds)
    /\ cmd = "exited" =>
        /\ attempted = feeds
        /\ errors = SelectSeq(feeds, LAMBDA f : last[f].outcome = "Aborted")
        /\ (exitCode # 0) <=> (Len(errors) > 0)

\* C7 witness: the first of two feeds failed, the second was still synced,
\* and the command reported failure.
C7_Witness ==
    /\ cmd = "exited"
    /\ Len(feeds) = 2
    /\ errors = <<feeds[1]>>
    /\ last[feeds[2]].outcome = "Done"
    /\ ledger[feeds[2]] # <<>>
    /\ exitCode = 1

\* An entry with a usable date: published or modified, and not the epoch.
ValidEntry(e) ==
    LET published == IF e.published.some THEN e.published ELSE e.modified
    IN  published.some /\ published.val # 0

\* C8. Invalid entries are recovered locally: no entry makes the run fail,
\* and every valid entry of the document is among the items the run goes on
\* to deduplicate.
C8_InvalidEntriesSkipped ==
    /\ failure # "entry"
    /\ state = "Deduplicating" =>
           Range(itemsToStore) =
               {fromEntry(feed[k]).item :
                   k \in {n \in 1..Len(feed) : ValidEntry(feed[n])}}

\* C9. Sequential publishing: at most one request is outstanding; it
\* belongs to the feed the loop is at, and a write is for the item after the
\* acknowledged ones.
C9_SequentialPublishing ==
    /\ Cardinality(inflight) <= 1
    /\ \A r \in inflight :
        /\ InRun
        /\ r.feed = Current
        /\ r.op = "put" => (state = "Publishing" /\ r.item = nextPut)

\* C9 witness: the second write of the second feed of a batch is
\* outstanding, after the first feed has written.
C9_Witness ==
    /\ Len(feeds) = 2
    /\ feedIdx = 2
    /\ ledger[feeds[1]] # <<>>
    /\ \E r \in inflight : r.op = "put" /\ r.item = 2

\* C10. Bounded requests: every run of syncFeed that has started its fetch
\* reaches Done or Aborted.
C10_EveryRunEnds ==
    [](state = "Fetching" => <>(state \in {"Done", "Aborted"}))


\* The items of the entries of `doc` at the positions up to the cap.
ItemsWithinCap(doc) ==
    {fromEntry(doc[k]).item :
         k \in {j \in 1..Len(doc) : j <= MAX_FEED_ITEMS
                                     /\ fromEntry(doc[j]).kind = "item"}}

\* C11. Entry cap: whatever a run holds as its items and whatever it calls
\* putItem with comes from one of the first MAX_FEED_ITEMS entries of the
\* document, and a run calls putItem at most MAX_FEED_ITEMS times.
C11_EntryCap ==
    InRun =>
        LET within == ItemsWithinCap(rss[Current])
        IN  /\ Range(itemsToStore) \subseteq within
            /\ Range(putLog) \subseteq within
            /\ Len(itemsToStore) <= MAX_FEED_ITEMS
            /\ Len(putLog) <= MAX_FEED_ITEMS

\* C11 witness: a run on a document longer than the cap has written
\* MAX_FEED_ITEMS items, and the document's last entry is none of them.
C11_Witness ==
    /\ state = "Done"
    /\ Len(rss[Current]) > MAX_FEED_ITEMS
    /\ Len(putLog) = MAX_FEED_ITEMS
    /\ fromEntry(rss[Current][Len(rss[Current])]).item \notin Range(putLog)

\* An identifier with every '"' and '>' taken out.
Stripped(id) == SelectSeq(id, LAMBDA c : c # DQ /\ c # GT)

\* The identifier of a line that starts with a marker: the quoted text, at
\* least one character long and free of '"' and '>', between the marker's
\* opening and its close.
MarkerIdOf(line) ==
    IF Len(line) >= 5 /\ line[1] = MARK_OPEN /\ line[2] = DQ
    THEN LET ends == {n \in 3..(Len(line) - 2) :
                         /\ \A k \in 3..n : line[k] \notin {DQ, GT, MARK_CLOSE}
                         /\ line[n + 1] = DQ
                         /\ line[n + 2] = MARK_CLOSE}
         IN  IF ends = {} THEN None
             ELSE Some(SubSeq(line, 3, CHOOSE n \in ends : TRUE))
    ELSE None

\* The lines of `lines` that start with a marker, by position.
MarkerLines(lines) == {k \in 1..Len(lines) : MarkerIdOf(lines[k]).some}

\* C12. Marker round-trip: for any body and any identifier string, decoding
\* the encoded body gives the identifier without its '"' and '>' characters.
C12_RoundTripAnyInput ==
    (codec.step = "roundtrip" /\ codec.guid.some)
        => codec.decoded = Some(Stripped(codec.guid.val))

\* What does hold: the round trip of an identifier that keeps at least one
\* character once its '"' and '>' are taken out, through a body none of
\* whose lines starts with a marker.
RoundTripOfPlainInput ==
    (/\ codec.step = "roundtrip"
     /\ codec.guid.some
     /\ Stripped(codec.guid.val) # <<>>
     /\ MarkerLines(codec.lines) = {})
        => codec.decoded = Some(Stripped(codec.guid.val))


\* The date fromEntry hands to the constructor: published, else dc:modified.
DateOf(entry) == IF entry.published.some THEN entry.published ELSE entry.modified

\* C13. Zero-timestamp rejection: a run whose document holds, among the entries
\* considered, one dated at the UNIX epoch is aborted by that entry and calls
\* putItem for nothing; no item a run holds has timestamp 0, and no record a
\* run submits or leaves on the ledger has ledger timestamp 0.
C13_ZeroTimestampRejected ==
    InRun =>
        /\ \A k \in 1..Len(itemsToStore) : itemsToStore[k].timestampMsUTC # 0
        /\ \A k \in 1..Len(putLog) : toProtobuf(putLog[k]).timestampMsUtc # 0
        /\ \A r \in Range(ledger[Current]) \ Range(scanLedger) :
               r.timestampMsUtc # 0
        /\ (/\ state \notin {"Fetching", "Normalizing"}
            /\ \E k \in 1..Len(SliceEntries(feed)) : DateOf(feed[k]) = Some(0))
               => (state = "Aborted" /\ failure = "entry" /\ putLog = <<>>)

\* C13 witness: a document whose second entry is dated at the epoch, after an
\* entry with a proper date, has aborted its run.
C13_Witness ==
    /\ state = "Aborted"
    /\ failure = "entry"
    /\ Len(feed) = 2
    /\ DateOf(feed[1]) = Some(Week1)
    /\ DateOf(feed[2]) = Some(0)
    /\ putLog = <<>>

\* C14. Timestamp drift: putItem is not called for an item when the ledger
\* the run started with holds the record of an entry with the same
\* identifier and another date, and the item's date is earlier than that
\* record's or at most one week later.
C14_DriftAbsorbed ==
    \A k \in 1..Len(putLog) : \A r \in Range(scanLedger) :
        \A e \in DriftEntries :
            ~ (/\ e.id = putLog[k].guid
               /\ fromEntry(e).kind = "item"
               /\ r = toProtobuf(fromEntry(e).item)
               /\ putLog[k].timestampMsUTC # r.timestampMsUtc
               /\ putLog[k].timestampMsUTC <= r.timestampMsUtc + ONE_WEEK_MS)

\* C15. Profile synchronization: a call of updateProfile that returns has
\* called putItem once, with a profile of the configured name and text, when
\* the identity had no profile or one whose name or text differs, and has
\* called it for nothing when both matched; a call that follows a call for
\* the same identity that returned calls putItem for nothing.
C15_ProfileSync ==
    (cmd = "updating" /\ state = "Done") =>
        LET profiles == SelectSeq(scanLedger, LAMBDA r : r.itemType = "profile")
            same == /\ profiles # <<>>
                    /\ profiles[1].displayName = FeedName(Current)
                    /\ profiles[1].about = profileText(Current)
        IN  /\ same => putLog = <<>>
            /\ ~same => /\ Len(putLog) = 1
                         /\ putLog[1].itemType = "profile"
                         /\ putLog[1].displayName = FeedName(Current)
                         /\ putLog[1].about = profileText(Current)
            /\ last[Current].outcome = "Done" => putLog = <<>>

\* C15 witness: a call that returned without a putItem, after a call for the
\* same identity that replaced a profile with another text.
C15_Witness ==
    /\ cmd = "updating"
    /\ state = "Done"
    /\ putLog = <<>>
    /\ last[Current].outcome = "Done"
    /\ Len(last[Current].pending) = 1
    /\ \E r \in Range(scanLedger) :
           r.itemType = "profile" /\ r.about # profileText(Current)

\* The scan of the current run has returned.
ScanOver ==
    /\ cmd = "running"
    /\ oldestTimestamp # 0
    /\ \/ state \in {"Publishing", "Done"}
       \/ state = "Aborted" /\ failure = "write"

\* The post records of `records` not older than one week before `oldest`.
PostsInWindow(records, oldest) ==
    {r \in Range(records) :
         IsPost(r) /\ r.timestampMsUtc >= oldest - ONE_WEEK_MS}

\* C16. History scan result: the set getSeenGUIDs returns holds exactly the
\* identifiers findGUID decodes from the identity's post records that are
\* not older than one week before the oldest pending item; other records
\* add nothing.
C16_ScanResult ==
    ScanOver =>
        guids = {findGUID(r.body).val :
                     r \in {q \in PostsInWindow(scanLedger, oldestTimestamp) :
                                findGUID(q.body).some}}

\* C16 witness: the scan took the identifier of a record exactly at the
\* cutoff, and an item whose identifier only an older record carries was
\* handed to putItem.
C16_Witness ==
    /\ ScanOver
    /\ \E r \in Range(scanLedger) :
           /\ IsPost(r)
           /\ r.timestampMsUtc = oldestTimestamp - ONE_WEEK_MS
           /\ findGUID(r.body).some
           /\ findGUID(r.body).val \in guids
    /\ \E r \in Range(scanLedger) : \E k \in 1..Len(putLog) :
           /\ IsPost(r)
           /\ r.timestampMsUtc < oldestTimestamp - ONE_WEEK_MS
           /\ findGUID(r.body) = putLog[k].guid

\* The position of the first header of `records` older than one week before
\* `oldest`, or the position after the last header.
FirstOlder(records, oldest) ==
    LET older == {k \in 1..Len(records) :
                     records[k].timestampMsUtc < oldest - ONE_WEEK_MS}
    IN  IF older = {} THEN Len(records) + 1
        ELSE CHOOSE k \in older : \A j \in older : k <= j

\* C17. Early termination: the scan reads no header past the first one older
\* than the cutoff and calls getItem for none from that one on; when it has
\* returned, its getItem calls number the headers not older than the cutoff
\* that precede that header.
C17_EarlyTermination ==
    (cmd = "running" /\ oldestTimestamp # 0) =>
        LET stop == FirstOlder(scanLedger, oldestTimestamp)
        IN  /\ scanPos <= stop
            /\ getItemCalls = scanPos - 1
            /\ ScanOver =>
                   /\ scanPos = stop
                   /\ getItemCalls =
                          Cardinality({k \in 1..(stop - 1) :
                              scanLedger[k].timestampMsUtc
                                  >= oldestTimestamp - ONE_WEEK_MS})

\* C17 witness: the scan fetched a record, met an older header and returned
\* with a header of the stream left unread.
C17_Witness ==
    /\ ScanOver
    /\ getItemCalls >= 1
    /\ scanPos < Len(scanLedger)

\* C18. Marker decode policy: findGUID returns nothing for a body without a
\* line starting with a marker, and else the identifier of the first such
\* line of the body.
C18_DecodePolicy ==
    codec.step = "decoded" =>
        LET found == MarkerLines(codec.lines)
        IN  IF found = {} THEN codec.decoded = None
            ELSE codec.decoded =
                     MarkerIdOf(codec.lines[CHOOSE k \in found :
                                                \A j \in found : k <= j])

\* C18 witness: a body whose second and third lines start with markers of
\* two identifiers was decoded to the identifier of the second line.
C18_Witness ==
    /\ codec.step = "decoded"
    /\ Len(codec.lines) = 3
    /\ MarkerLines(codec.lines) = {2, 3}
    /\ MarkerIdOf(codec.lines[2]) # MarkerIdOf(codec.lines[3])
    /\ codec.decoded = MarkerIdOf(codec.lines[2])

\* C19. Agreement of item identifier and marker: the identifier of every item
\* a run holds, which the filter tests against the seen-set, is a string and
\* is the one findGUID decodes from the item's body.
C19_GuidIsDecodedMarker ==
    cmd = "running" =>
        \A k \in 1..Len(itemsToStore) :
            /\ itemsToStore[k].guid.some
            /\ findGUID(itemsToStore[k].markdown) = itemsToStore[k].guid

AbortCause(a, r) ==
    \/ a.scopeEnded
    \/ a.now - r.startedAt >= a.timeoutMs
    \/ r.requestSignal # NoSignal /\ r.requestSignal \in a.raised
    \/ r.initSignal # NoSignal /\ r.initSignal \in a.raised

\* C21. Aborter abort condition: a request that has not completed is aborted
\* exactly when the Aborter is disposed, or timeoutMs has passed since its
\* own fetch call, or the signal of its Request or of its init has aborted;
\* once the Aborter is disposed no request started through it is in flight,
\* and a request started after that is aborted from the start.
C21_AbortCondition ==
    \A k \in 1..Len(aborter.requests) :
        LET r == aborter.requests[k]
        IN  /\ r.status = "aborted" => AbortCause(aborter, r)
            /\ AbortCause(aborter, r) => r.status # "inflight"
            /\ aborter.scopeEnded => r.status # "inflight"
            /\ r.afterDispose => r.status = "aborted"

\* C21 witness: of two requests with no signal of the caller aborted, the
\* first was aborted by its timeout while the second, started later, is
\* still in flight.
C21_Witness ==
    /\ Len(aborter.requests) = 2
    /\ ~aborter.scopeEnded
    /\ aborter.raised = {}
    /\ aborter.requests[1].status = "aborted"
    /\ aborter.requests[2].status = "inflight"
    /\ aborter.requests[2].startedAt > aborter.requests[1].startedAt
=============================================================================

